---- MODULE Spec2Model ----
(***************************************************************************)
(* Model of SecretManager::new (src/src/lib.rs): derivation of the         *)
(* 1password reference from a key, the launch of the `op` agent, and the   *)
(* decoding and trimming of the agent's standard output.                   *)
(*                                                                         *)
(* A &str / String is a sequence: keys and references are sequences of     *)
(* one-character strings, the agent's output is a sequence of bytes.       *)
(***************************************************************************)
EXTENDS Integers, Sequences, FiniteSets, TLC

VARIABLES pc, key, vault, clean_key, op_path, agent, result, launches, trace

vars == <<pc, key, vault, clean_key, op_path, agent, result, launches, trace>>

(***************************************************************************)
(* Bounds of the model.                                                    *)
(***************************************************************************)
MaxKeyTokens == 3
MaxChunks == 3
MaxExitCode == 1
NumThreads == 2

(***************************************************************************)
(* String literals of src/src/lib.rs.                                      *)
(***************************************************************************)
TestSuffix == <<"_", "t", "e", "s", "t">>
VaultTest == <<"T", "e", "s", "t">>
VaultProduction == <<"P", "r", "o", "d", "u", "c", "t", "i", "o", "n">>
PathScheme == <<"o", "p", ":", "/", "/">>
PathItemPrefix == <<"/", "A", "z", "u", "r", "e", "K", "e", "y", "V", "a", "u", "l", "t">>
PathField == <<"/", "u", "r", "l">>
Program == <<"o", "p">>
Subcommand == <<"r", "e", "a", "d">>
SpawnContext == "Error executing command"
DecodeContext == "Failed to convert command output to string"

(***************************************************************************)
(* Inputs: keys are concatenations of at most n tokens, agent outputs are  *)
(* concatenations of at most n chunks of bytes.                            *)
(***************************************************************************)
KeyTokens ==
    { <<"d", "e", "m", "o">>,
      <<"D", "e", "m", "o">>,
      <<"_", "t", "e", "s", "t">>,
      <<"_", "T", "E", "S", "T">>,
      <<"A", "Z", "U", "R", "E", "_", "K", "E", "Y", "_", "V", "A", "U", "L", "T">> }

\* "https://foo.bar.baz.net/"
UrlBytes == <<104, 116, 116, 112, 115, 58, 47, 47, 102, 111, 111, 46,
              98, 97, 114, 46, 98, 97, 122, 46, 110, 101, 116, 47>>

\* the url, "\n", "\r", 0xFF and the bytes 0xC2, 0xC3, 0xA0, of which
\* C2 A0 is U+00A0 (whitespace) and C3 A0 is U+00E0 (a letter)
OutputChunks == { UrlBytes, <<10>>, <<13>>, <<194>>, <<195>>, <<160>>, <<255>> }

RECURSIVE Concats(_, _)
Concats(tokens, n) ==
    IF n = 0 THEN { <<>> }
    ELSE LET shorter == Concats(tokens, n - 1)
         IN  shorter \cup { s \o t : s \in shorter, t \in tokens }

Keys == Concats(KeyTokens, MaxKeyTokens)
Outputs == Concats(OutputChunks, MaxChunks)
ExitCodes == 0..MaxExitCode

\* the small input sets: the keys "demo" and "demo_test", the outputs
\* "url\n" and 0xFF
FewKeys == { <<"d", "e", "m", "o">>, <<"d", "e", "m", "o", "_", "t", "e", "s", "t">> }
ShortUrl == <<117, 114, 108>>
FewOutputs == { ShortUrl \o <<10>>, <<255>> }

(***************************************************************************)
(* str::ends_with, str::trim_end_matches and format! (lines 41-49).        *)
(***************************************************************************)
EndsWith(s, pat) ==
    /\ Len(s) >= Len(pat)
    /\ SubSeq(s, Len(s) - Len(pat) + 1, Len(s)) = pat

\* trim_end_matches removes the pattern repeatedly from the end
RECURSIVE TrimEndMatches(_, _)
TrimEndMatches(s, pat) ==
    IF pat # <<>> /\ EndsWith(s, pat)
    THEN TrimEndMatches(SubSeq(s, 1, Len(s) - Len(pat)), pat)
    ELSE s

VaultOfUpper(k) ==
    IF EndsWith(k, TestSuffix) \/ EndsWith(k, <<"_", "T", "E", "S", "T">>)
    THEN VaultTest ELSE VaultProduction

VaultOf(k) == IF EndsWith(k, TestSuffix) THEN VaultTest ELSE VaultProduction

CleanKey(k) == TrimEndMatches(k, TestSuffix)

OpPath(v, ck) == PathScheme \o v \o PathItemPrefix \o ck \o PathField

CommandArgsSwapped(path) == <<path, Subcommand>>

CommandArgs(path) == <<Subcommand, path>>

(***************************************************************************)
(* String::from_utf8 (line 57): the validation walks the bytes from the    *)
(* front, each lead byte fixing the ranges of the bytes that follow it.    *)
(***************************************************************************)
IsCont(b) == b >= 128 /\ b <= 191

ByteAt(bytes, i) == IF i <= Len(bytes) THEN bytes[i] ELSE 256

\* number of bytes of the character starting at i, 0 when it is malformed
CharWidth(bytes, i) ==
    LET b0 == bytes[i]
        b1 == ByteAt(bytes, i + 1)
        b2 == ByteAt(bytes, i + 2)
        b3 == ByteAt(bytes, i + 3)
    IN  IF b0 < 128 THEN 1
        ELSE IF b0 >= 194 /\ b0 <= 223
             THEN IF IsCont(b1) THEN 2 ELSE 0
        ELSE IF b0 = 224
             THEN IF b1 >= 160 /\ b1 <= 191 /\ IsCont(b2) THEN 3 ELSE 0
        ELSE IF (b0 >= 225 /\ b0 <= 236) \/ b0 = 238 \/ b0 = 239
             THEN IF IsCont(b1) /\ IsCont(b2) THEN 3 ELSE 0
        ELSE IF b0 = 237
             THEN IF b1 >= 128 /\ b1 <= 159 /\ IsCont(b2) THEN 3 ELSE 0
        ELSE IF b0 = 240
             THEN IF b1 >= 144 /\ b1 <= 191 /\ IsCont(b2) /\ IsCont(b3) THEN 4 ELSE 0
        ELSE IF b0 >= 241 /\ b0 <= 243
             THEN IF IsCont(b1) /\ IsCont(b2) /\ IsCont(b3) THEN 4 ELSE 0
        ELSE IF b0 = 244
             THEN IF b1 >= 128 /\ b1 <= 143 /\ IsCont(b2) /\ IsCont(b3) THEN 4 ELSE 0
        ELSE 0

\* length of the longest valid prefix (Utf8Error::valid_up_to)
RECURSIVE ValidUpTo(_, _)
ValidUpTo(bytes, i) ==
    IF i > Len(bytes) THEN Len(bytes)
    ELSE LET w == CharWidth(bytes, i)
         IN  IF w = 0 THEN i - 1 ELSE ValidUpTo(bytes, i + w)

FromUtf8Lossy(bytes) == TRUE

\* TRUE for Ok(String), FALSE for Err(FromUtf8Error)
FromUtf8(bytes) == ValidUpTo(bytes, 1) = Len(bytes)

(***************************************************************************)
(* str::trim_end (line 59): characters are read from the back and dropped  *)
(* while char::is_whitespace.                                              *)
(***************************************************************************)
IsWhitespace(cp) ==
    \/ cp >= 9 /\ cp <= 13
    \/ cp \in {32, 133, 160, 5760, 8232, 8233, 8239, 8287, 12288}
    \/ cp >= 8192 /\ cp <= 8202

\* index of the first byte of the last character of a valid string
RECURSIVE LastCharStart(_, _)
LastCharStart(s, i) ==
    IF i > 1 /\ IsCont(s[i]) THEN LastCharStart(s, i - 1) ELSE i

\* code point of the character held in bytes i..j of a valid string
RECURSIVE CodePoint(_, _, _)
CodePoint(s, i, j) ==
    IF i = j
    THEN (IF s[i] < 128 THEN s[i]
          ELSE IF s[i] < 224 THEN s[i] - 192
          ELSE IF s[i] < 240 THEN s[i] - 224
          ELSE s[i] - 240)
    ELSE CodePoint(s, i, j - 1) * 64 + (s[j] - 128)

TrimOneNewline(s) ==
    IF s # <<>> /\ s[Len(s)] = 10 THEN SubSeq(s, 1, Len(s) - 1) ELSE s

RECURSIVE TrimEnd(_)
TrimEnd(s) ==
    IF s = <<>> THEN s
    ELSE LET i == LastCharStart(s, Len(s))
         IN  IF IsWhitespace(CodePoint(s, i, Len(s)))
             THEN TrimEnd(SubSeq(s, 1, i - 1))
             ELSE s

(***************************************************************************)
(* State.  Every call of SecretManager::new runs on a thread of its own:   *)
(*   pc        where the call is: "not_invoked", "waiting" (blocked in     *)
(*             Command::output), "resolved" (Ok returned) or "failed"      *)
(*   key, vault, clean_key, op_path   the argument and the locals          *)
(*   agent     the child process of the call and what it wrote             *)
(*   result    what the call returned                                      *)
(*   launches  every attempt to start a program, in order                  *)
(*   trace     the steps the call has executed                             *)
(***************************************************************************)
NoAgent == [state |-> "none", stdout |-> <<>>, status |-> 0]
NoResult == [tag |-> "none"]

Ok(u) == [tag |-> "Ok", url |-> u]
Err(ctx) == [tag |-> "Err", context |-> ctx]

InitThreads(T) ==
    /\ pc = [c \in T |-> "not_invoked"]
    /\ key = [c \in T |-> <<>>]
    /\ vault = [c \in T |-> <<>>]
    /\ clean_key = [c \in T |-> <<>>]
    /\ op_path = [c \in T |-> <<>>]
    /\ agent = [c \in T |-> NoAgent]
    /\ result = [c \in T |-> NoResult]
    /\ launches = <<>>
    /\ trace = [c \in T |-> <<>>]

Init == InitThreads({1})
InitConc == InitThreads(1..NumThreads)

\* lines 41-49: the locals computed from the key
Resolve(c, k) ==
    /\ key' = [key EXCEPT ![c] = k]
    /\ vault' = [vault EXCEPT ![c] = VaultOf(k)]
    /\ clean_key' = [clean_key EXCEPT ![c] = CleanKey(k)]
    /\ op_path' = [op_path EXCEPT ![c] = OpPath(VaultOf(k), CleanKey(k))]

\* lines 51-54: Command::new("op").arg("read").arg(&op_path).output()
Launch(log, c, path, ok) ==
    Append(log, [caller |-> c, program |-> Program,
                 args |-> CommandArgs(path), ok |-> ok])

SpawnErrorDefault == Ok(<<>>)

\* line 55: the error of output() is returned with a context
SpawnError == Err(SpawnContext)

OutputResultChecked(stdout, status) ==
    IF status # 0 THEN Err(SpawnContext)
    ELSE IF FromUtf8(stdout) THEN Ok(TrimEnd(stdout)) ELSE Err(DecodeContext)

\* lines 57-62: decode, trim, wrap; command.status is never read
OutputResult(stdout, status) ==
    IF FromUtf8(stdout) THEN Ok(TrimEnd(stdout)) ELSE Err(DecodeContext)

OutputSteps(stdout) ==
    IF FromUtf8(stdout) THEN <<"decode", "trim">> ELSE <<"decode">>

CapturedShared(c) == agent[CHOOSE d \in DOMAIN agent : \A e \in DOMAIN agent : d <= e].stdout

\* line 57: command.stdout, the bytes captured from the call's own child
Captured(c) == agent[c].stdout

OutputReadyNoWait(c) == agent[c].state \in {"running", "exited"}

\* line 54: output() returns once the child has exited
OutputReady(c) == agent[c].state = "exited"

\* lines 40-55, the program cannot be started: new returns the error
NewSpawnFails(c, k) ==
    /\ pc[c] = "not_invoked"
    /\ Resolve(c, k)
    /\ launches' = Launch(launches, c, OpPath(VaultOf(k), CleanKey(k)), FALSE)
    /\ agent' = [agent EXCEPT ![c].state = "spawn_error"]
    /\ result' = [result EXCEPT ![c] = SpawnError]
    /\ pc' = [pc EXCEPT ![c] = IF SpawnError.tag = "Ok" THEN "resolved" ELSE "failed"]
    /\ trace' = [trace EXCEPT ![c] = <<"resolve", "spawn">>]

\* lines 40-54, the program starts: the thread blocks in output()
NewSpawns(c, k) ==
    /\ pc[c] = "not_invoked"
    /\ Resolve(c, k)
    /\ launches' = Launch(launches, c, OpPath(VaultOf(k), CleanKey(k)), TRUE)
    /\ agent' = [agent EXCEPT ![c].state = "running"]
    /\ pc' = [pc EXCEPT ![c] = "waiting"]
    /\ trace' = [trace EXCEPT ![c] = <<"resolve", "spawn">>]
    /\ UNCHANGED result

\* the child writes its output and exits with a status
AgentExits(c, out, st) ==
    /\ agent[c].state = "running"
    /\ agent' = [agent EXCEPT ![c] = [state |-> "exited", stdout |-> out, status |-> st]]
    /\ UNCHANGED <<pc, key, vault, clean_key, op_path, result, launches, trace>>

\* lines 54-62: output() returns the captured bytes, new returns
NewReturns(c) ==
    /\ pc[c] = "waiting"
    /\ OutputReady(c)
    /\ LET r == OutputResult(Captured(c), agent[c].status)
       IN  /\ result' = [result EXCEPT ![c] = r]
           /\ pc' = [pc EXCEPT ![c] = IF r.tag = "Ok" THEN "resolved" ELSE "failed"]
    /\ trace' = [trace EXCEPT ![c] = trace[c] \o OutputSteps(Captured(c))]
    /\ UNCHANGED <<key, vault, clean_key, op_path, agent, launches>>

\* one call, every key
Next ==
    \E c \in DOMAIN pc :
        \/ \E k \in Keys : NewSpawnFails(c, k)
        \/ \E k \in Keys : NewSpawns(c, k)
        \/ \E out \in FewOutputs, st \in ExitCodes : AgentExits(c, out, st)
        \/ NewReturns(c)

\* one call, every output
NextOut ==
    \E c \in DOMAIN pc :
        \/ \E k \in FewKeys : NewSpawnFails(c, k)
        \/ \E k \in FewKeys : NewSpawns(c, k)
        \/ \E out \in Outputs, st \in ExitCodes : AgentExits(c, out, st)
        \/ NewReturns(c)

\* concurrent calls
NextConc ==
    \E c \in DOMAIN pc :
        \/ \E k \in FewKeys : NewSpawnFails(c, k)
        \/ \E k \in FewKeys : NewSpawns(c, k)
        \/ \E out \in FewOutputs, st \in ExitCodes : AgentExits(c, out, st)
        \/ NewReturns(c)

Spec == Init /\ [][Next]_vars

SpecOut == Init /\ [][NextOut]_vars

SpecConc == InitConc /\ [][NextConc]_vars

\* a thread whose child has exited is scheduled again: output() returns
SpecLive == Init /\ [][Next]_vars /\ WF_vars(NewReturns(1))

TypeOK ==
    /\ \A c \in DOMAIN pc : pc[c] \in {"not_invoked", "waiting", "resolved", "failed"}
    /\ \A c \in DOMAIN pc : result[c].tag \in {"none", "Ok", "Err"}

(***************************************************************************)
(* Vocabulary of the properties, stated without the operators above.       *)
(***************************************************************************)
Terminal == {"resolved", "failed"}

ProductionPrefix == <<"o", "p", ":", "/", "/", "P", "r", "o", "d", "u", "c", "t", "i", "o", "n",
                      "/", "A", "z", "u", "r", "e", "K", "e", "y", "V", "a", "u", "l", "t">>
TestPrefix == <<"o", "p", ":", "/", "/", "T", "e", "s", "t",
                "/", "A", "z", "u", "r", "e", "K", "e", "y", "V", "a", "u", "l", "t">>
UrlField == <<"/", "u", "r", "l">>

\* the last five characters of k are _ t e s t
HasLowerSuffix(k) ==
    /\ Len(k) >= 5
    /\ k[Len(k) - 4] = "_" /\ k[Len(k) - 3] = "t" /\ k[Len(k) - 2] = "e"
    /\ k[Len(k) - 1] = "s" /\ k[Len(k)] = "t"

\* the last five characters of k are _ T E S T
HasUpperSuffix(k) ==
    /\ Len(k) >= 5
    /\ k[Len(k) - 4] = "_" /\ k[Len(k) - 3] = "T" /\ k[Len(k) - 2] = "E"
    /\ k[Len(k) - 1] = "S" /\ k[Len(k)] = "T"

\* k without its last five characters
WithoutSuffix(k) == SubSeq(k, 1, Len(k) - 5)

DemoTest == <<"d", "e", "m", "o", "_", "t", "e", "s", "t">>
AzureKeyVaultTEST == <<"A", "Z", "U", "R", "E", "_", "K", "E", "Y", "_",
                       "V", "A", "U", "L", "T", "_", "T", "E", "S", "T">>

\* UTF-8 by definition: the encoding of a Unicode scalar value
Utf8Encode(cp) ==
    IF cp < 128 THEN <<cp>>
    ELSE IF cp < 2048 THEN <<192 + (cp \div 64), 128 + (cp % 64)>>
    ELSE IF cp < 65536
         THEN <<224 + (cp \div 4096), 128 + ((cp \div 64) % 64), 128 + (cp % 64)>>
    ELSE <<240 + (cp \div 262144), 128 + ((cp \div 4096) % 64),
           128 + ((cp \div 64) % 64), 128 + (cp % 64)>>

IsScalar(cp) == cp >= 0 /\ cp <= 1114111 /\ ~(cp >= 55296 /\ cp <= 57343)

\* the only value whose encoding the bytes s (of length 1..4) can be
Assemble(s) ==
    IF Len(s) = 1 THEN s[1]
    ELSE IF Len(s) = 2 THEN (s[1] - 192) * 64 + (s[2] - 128)
    ELSE IF Len(s) = 3 THEN (s[1] - 224) * 4096 + (s[2] - 128) * 64 + (s[3] - 128)
    ELSE (s[1] - 240) * 262144 + (s[2] - 128) * 4096 + (s[3] - 128) * 64 + (s[4] - 128)

IsEncodedScalar(s) == IsScalar(Assemble(s)) /\ Utf8Encode(Assemble(s)) = s

MinOf(a, b) == IF a < b THEN a ELSE b

\* the bytes are the concatenation of encodings of scalar values
RECURSIVE WellFormedUtf8(_)
WellFormedUtf8(b) ==
    \/ b = <<>>
    \/ \E n \in 1..MinOf(4, Len(b)) :
          /\ IsEncodedScalar(SubSeq(b, 1, n))
          /\ WellFormedUtf8(SubSeq(b, n + 1, Len(b)))

WhiteSpace == (9..13) \cup {32, 133, 160, 5760} \cup (8192..8202)
                 \cup {8232, 8233, 8239, 8287, 12288}

\* the bytes are the concatenation of encodings of White_Space characters
RECURSIVE AllWhitespace(_)
AllWhitespace(b) ==
    \/ b = <<>>
    \/ \E n \in 1..MinOf(4, Len(b)) :
          /\ IsEncodedScalar(SubSeq(b, 1, n))
          /\ Assemble(SubSeq(b, 1, n)) \in WhiteSpace
          /\ AllWhitespace(SubSeq(b, n + 1, Len(b)))

EndsWithWhitespace(b) ==
    \E n \in 1..MinOf(4, Len(b)) :
       LET last == SubSeq(b, Len(b) - n + 1, Len(b))
       IN  IsEncodedScalar(last) /\ Assemble(last) \in WhiteSpace

\* u is text with its whole trailing run of whitespace removed
IsTrimOf(u, text) ==
    /\ Len(u) <= Len(text)
    /\ SubSeq(text, 1, Len(u)) = u
    /\ AllWhitespace(SubSeq(text, Len(u) + 1, Len(text)))
    /\ ~EndsWithWhitespace(u)
    /\ (u = <<>> \/ u[Len(u)] \notin {10, 13})

LaunchesOf(c) == { i \in 1..Len(launches) : launches[i].caller = c }

(***************************************************************************)
(* C1: the reference is fixed by the key alone: Production prefix + key +  *)
(* "/url" when the key does not end with "_test", Test prefix + the key    *)
(* without that suffix + "/url" when it does.                              *)
(***************************************************************************)
C1_ReferenceFromKey ==
    \A c \in DOMAIN pc :
        pc[c] # "not_invoked" =>
            op_path[c] = IF HasLowerSuffix(key[c])
                         THEN TestPrefix \o WithoutSuffix(key[c]) \o UrlField
                         ELSE ProductionPrefix \o key[c] \o UrlField

(***************************************************************************)
(* C2: exactly one trailing "_test" is removed: the normalized key of      *)
(* k + "_test" is k, also when k itself ends with "_test".                 *)
(***************************************************************************)
C2_StripsOneSuffix ==
    \A c \in DOMAIN pc :
        (pc[c] # "not_invoked" /\ HasLowerSuffix(key[c])) =>
            clean_key[c] = WithoutSuffix(key[c])

(***************************************************************************)
(* C3: when the agent cannot be launched the call returns a failure, never *)
(* a success, and the decode and trim steps are not executed.              *)
(***************************************************************************)
C3_SpawnFailureFails ==
    \A c \in DOMAIN pc :
        agent[c].state = "spawn_error" =>
            /\ pc[c] = "failed"
            /\ result[c].tag = "Err"
            /\ result[c] # [tag |-> "Ok", url |-> <<>>]
            /\ \A i \in 1..Len(trace[c]) : trace[c][i] \notin {"decode", "trim"}

C3_Witness ==
    \E c \in DOMAIN pc :
        /\ agent[c].state = "spawn_error"
        /\ \E i \in LaunchesOf(c) : ~launches[i].ok
        /\ result[c] = [tag |-> "Err", context |-> "Error executing command"]

(***************************************************************************)
(* C4: a returned url is the agent's output with its trailing whitespace   *)
(* removed: it is a prefix of the output, what was removed is whitespace   *)
(* only, and it does not end with a newline or a carriage return.          *)
(***************************************************************************)
C4_UrlIsTrimmedOutput ==
    \A c \in DOMAIN pc :
        result[c].tag = "Ok" => IsTrimOf(result[c].url, agent[c].stdout)

C4_Witness ==
    \E c \in DOMAIN pc :
        /\ agent[c].stdout = UrlBytes \o <<13, 10>>
        /\ result[c] = [tag |-> "Ok", url |-> UrlBytes]

(***************************************************************************)
(* C5: once the agent has run, the call fails with the decode error and    *)
(* no url when the output is not valid UTF-8, and succeeds when it is.     *)
(***************************************************************************)
C5_DecodeFailure ==
    \A c \in DOMAIN pc :
        (agent[c].state = "exited" /\ pc[c] \in Terminal) =>
            IF WellFormedUtf8(agent[c].stdout)
            THEN pc[c] = "resolved" /\ result[c].tag = "Ok"
            ELSE /\ pc[c] = "failed"
                 /\ result[c].tag = "Err"
                 /\ result[c].context = "Failed to convert command output to string"
                 /\ DOMAIN result[c] = {"tag", "context"}

C5_Witness ==
    \E c \in DOMAIN pc :
        /\ agent[c].stdout = UrlBytes \o <<194>>
        /\ pc[c] = "failed"
        /\ result[c].context = "Failed to convert command output to string"

(***************************************************************************)
(* C6: two calls whose agents wrote the same bytes return the same result  *)
(* whatever the exit statuses; an agent that exits with an error status    *)
(* after writing valid UTF-8 gives a success with that text, trimmed.      *)
(***************************************************************************)
C6_ExitStatusIgnored ==
    \A c, d \in DOMAIN pc :
        (/\ agent[c].state = "exited" /\ pc[c] \in Terminal
         /\ agent[d].state = "exited" /\ pc[d] \in Terminal
         /\ agent[c].stdout = agent[d].stdout) =>
            /\ result[c].tag = result[d].tag
            /\ result[c] = result[d]
            /\ (agent[c].status # 0 /\ WellFormedUtf8(agent[c].stdout)) =>
                   /\ result[c].tag = "Ok"
                   /\ IsTrimOf(result[c].url, agent[c].stdout)

C6_Witness ==
    \E c, d \in DOMAIN pc :
        /\ agent[c].state = "exited" /\ agent[d].state = "exited"
        /\ agent[c].status = 0 /\ agent[d].status # 0
        /\ agent[c].stdout = ShortUrl \o <<10>> /\ agent[d].stdout = ShortUrl \o <<10>>
        /\ result[c] = [tag |-> "Ok", url |-> ShortUrl]
        /\ result[d] = [tag |-> "Ok", url |-> ShortUrl]

(***************************************************************************)
(* C7: every key is accepted, and a call launches "op" exactly once, with  *)
(* the two arguments "read" and its reference, whatever the outcome; the   *)
(* key "_test" gives the reference "op://Test/AzureKeyVault/url".          *)
(***************************************************************************)
C7_OneLaunch ==
    \A c \in DOMAIN pc :
        /\ pc[c] = "not_invoked" =>
              /\ LaunchesOf(c) = {}
              /\ \A k \in Keys : ENABLED NewSpawns(c, k) /\ ENABLED NewSpawnFails(c, k)
        /\ pc[c] # "not_invoked" =>
              /\ Cardinality(LaunchesOf(c)) = 1
              /\ \A i \in LaunchesOf(c) :
                    /\ launches[i].program = <<"o", "p">>
                    /\ Len(launches[i].args) = 2
                    /\ launches[i].args[1] = <<"r", "e", "a", "d">>
                    /\ launches[i].args[2] = op_path[c]
                    /\ key[c] = <<"_", "t", "e", "s", "t">> =>
                          launches[i].args[2] = TestPrefix \o UrlField

C7_Witness ==
    \E c \in DOMAIN pc :
        /\ key[c] = <<"_", "t", "e", "s", "t">>
        /\ clean_key[c] = <<>>
        /\ pc[c] \in Terminal
        /\ Len(launches) = 1
        /\ launches[1].args = <<<<"r", "e", "a", "d">>, TestPrefix \o UrlField>>

(***************************************************************************)
(* C8: under every interleaving each invoked call has a launch of its own  *)
(* (equal requests are not merged) and its result is fixed by the outcome  *)
(* and the output of its own agent.                                        *)
(***************************************************************************)
C8_CallsIsolated ==
    /\ Len(launches) = Cardinality({ c \in DOMAIN pc : pc[c] # "not_invoked" })
    /\ \A c \in DOMAIN pc :
          /\ pc[c] # "not_invoked" => Cardinality(LaunchesOf(c)) = 1
          /\ pc[c] \notin Terminal => result[c] = [tag |-> "none"]
          /\ agent[c].state = "spawn_error" => result[c].tag = "Err"
          /\ (agent[c].state = "exited" /\ pc[c] \in Terminal) =>
                /\ result[c].tag = "Ok" <=> WellFormedUtf8(agent[c].stdout)
                /\ result[c].tag = "Ok" => IsTrimOf(result[c].url, agent[c].stdout)

C8_Witness ==
    \E c, d \in DOMAIN pc :
        /\ c # d
        /\ key[c] = key[d] /\ key[c] = DemoTest
        /\ Len(launches) >= 2
        /\ \E i, j \in 1..Len(launches) : i # j /\ launches[i].args = launches[j].args
        /\ agent[c].stdout # agent[d].stdout
        /\ result[c].tag = "Ok" /\ result[d].tag = "Err"

(***************************************************************************)
(* C9: a call starts not invoked; once its agent has failed to launch or   *)
(* has exited it reaches "resolved" (a url) or "failed" (an error, no url) *)
(* and stays there; while its agent runs it stays blocked, without result. *)
(***************************************************************************)
C9_Lifecycle ==
    /\ \A c \in {1} : pc[c] = "not_invoked"
    /\ [](\A c \in {1} :
            /\ pc[c] = "resolved" => DOMAIN result[c] = {"tag", "url"} /\ result[c].tag = "Ok"
            /\ pc[c] = "failed" => DOMAIN result[c] = {"tag", "context"} /\ result[c].tag = "Err"
            /\ agent[c].state = "running" => pc[c] = "waiting" /\ result[c].tag = "none")
    /\ [][\A c \in {1} :
            pc[c] \in Terminal => pc'[c] = pc[c] /\ result'[c] = result[c]]_vars
    /\ \A c \in {1} :
          (agent[c].state \in {"spawn_error", "exited"}) ~> (pc[c] \in Terminal)

C9_Witness ==
    \E c \in DOMAIN pc :
        /\ agent[c].state = "exited" /\ agent[c].status # 0
        /\ pc[c] = "resolved"
        /\ result[c] = [tag |-> "Ok", url |-> ShortUrl]

(***************************************************************************)
(* C10: the Test vault is selected exactly by the lowercase suffix; a key  *)
(* ending in "_TEST" selects Production and enters the reference as is.    *)
(***************************************************************************)
C10_SuffixCaseSensitive ==
    \A c \in DOMAIN pc :
        pc[c] # "not_invoked" =>
            /\ vault[c] = <<"T", "e", "s", "t">> <=> HasLowerSuffix(key[c])
            /\ vault[c] = <<"P", "r", "o", "d", "u", "c", "t", "i", "o", "n">>
                  <=> ~HasLowerSuffix(key[c])
            /\ HasUpperSuffix(key[c]) =>
                  op_path[c] = ProductionPrefix \o key[c] \o UrlField

C10_Witness ==
    \E c \in DOMAIN pc :
        /\ key[c] = AzureKeyVaultTEST
        /\ pc[c] # "not_invoked"
        /\ op_path[c] = ProductionPrefix \o AzureKeyVaultTEST \o UrlField

====
